---- MODULE Spec2Model ----
(***************************************************************************)
(* Time synchronisation of the transcript review UI: speaker grouping,     *)
(* active sentence / group lookup, the playback clock sampler, the group   *)
(* mark store and previous / next utterance navigation.                   *)
(*                                                                         *)
(* Times are in milliseconds.  The application keeps currentTime and the   *)
(* video position in seconds and converts with /1000 and *1000 in IEEE     *)
(* doubles; for every time value used here (multiples of 50 below 8000)    *)
(* x/1000*1000 = x exactly, so the model keeps the millisecond value.      *)
(***************************************************************************)
EXTENDS Integers, Sequences, FiniteSets, TLC

VARIABLES
    paragraphs,          \* TranscriptPanel / VideoPlayer prop: the transcript's pg
    agendaItems,         \* App agendaItems (VideoPlayer / SmartOverview prop)
    parsedTranscript,    \* App state parsedTranscript: the full transcript's pg
    speakerFilter,       \* App state speakerFilter
    requests,            \* filter requests in flight, each awaiting fetch or json
    issued,              \* filter requests issued so far
    filterError,         \* an exception escaped handleSpeakerFilterChange
    lastResponse,        \* history: the response that settled last
    currentTime,         \* App state currentTime, in ms
    videoTime,           \* videoRef.current.currentTime, in ms
    renderTimeMs,        \* TranscriptPanel state renderTimeMs
    isSelecting,         \* TranscriptPanel isSelectingRef.current
    selectionMenu,       \* TranscriptPanel state selectionMenu (the fields used)
    clickOutsideArmed,   \* the document mousedown listener of the menu is attached
    groupMarks,          \* TranscriptPanel state groupMarks: groupId -> MarkType
    transcriptMarks,     \* VideoPlayer state transcriptMarks (progress bar marks)
    textMarks,           \* TranscriptPanel state textMarks (selection marks)
    notes,               \* App state notes
    isNotePanelOpen,     \* App state isNotePanelOpen
    now,                 \* the wall clock read by Date.now(), in ms
    buttonHeld,          \* the mouse button is down since a press on a group's text
    markLog,             \* history: the mark changes made, oldest first
    forceScrollSentence, \* the sentence of the last sentenceChange event
    selectedGroupId,     \* TranscriptPanel state selectedGroupId
    fed,                 \* history: entries of Script fed so far, -1 once off it
    updates,             \* history: setRenderTimeMs calls while on the script
    lastOp,              \* history: the handler that ran last
    prevOp               \* history: the handler that ran before it

vars == <<paragraphs, agendaItems, parsedTranscript, speakerFilter, requests, issued,
          filterError, lastResponse, notes, isNotePanelOpen, now, buttonHeld, currentTime,
          videoTime,
          renderTimeMs, isSelecting,
          selectionMenu, clickOutsideArmed, groupMarks, transcriptMarks, textMarks, markLog,
          forceScrollSentence,
          selectedGroupId, fed, updates, lastOp, prevOp>>

filterVars == <<parsedTranscript, speakerFilter, requests, issued, filterError,
               lastResponse>>
noteVars == <<notes, isNotePanelOpen, now>>
appVars  == <<agendaItems, filterVars, noteVars, buttonHeld>>
timeVars == <<currentTime, videoTime, renderTimeMs>>
selVars  == <<isSelecting, selectionMenu, clickOutsideArmed>>
markVars == <<groupMarks, transcriptMarks, textMarks, markLog>>
navVars  == <<forceScrollSentence, selectedGroupId>>
histVars == <<fed, updates, lastOp, prevOp>>

\* ------------------------------------------------------------------ bounds

MaxSentences == 3        \* sentences of a generated transcript
MaxNavSentences == 4     \* sentences of a transcript laid out for navigation
MaxMarkOps == 3          \* mark changes of one run
MaxAgendaItems == 3      \* items of a generated agenda list
MaxRequests == 2         \* filter requests issued in one run
MaxTextMarks == 2        \* selection marks added in one run
MaxNotes == 2            \* notes created in one run
MaxTextLen == 3          \* characters of a sentence text in a selection
MaxSelSentences == 2     \* sentences of a group a selection is made in

Speakers == {1, 2}
SentenceTimes == {0, 400, 800}                \* bt / et of generated sentences
QueryTimes == {0, 200, 400, 600, 800, 1000}   \* playback times fed to the lookup

Null == [null |-> TRUE]  \* JavaScript null / undefined

Abs(x) == IF x < 0 THEN -x ELSE x

\* ------------------------------------------------------------ transcripts

\* tc of the sentence with id i: a text of i % 3 characters (so empty texts occur)
TextOf(i) == [k \in 1..(i % 3) |-> i]

SentenceShapes ==
    {sh \in [bt : SentenceTimes, et : SentenceTimes, si : Speakers] : sh.bt <= sh.et}

MkSentence(i, sh) == [id |-> i, bt |-> sh.bt, et |-> sh.et, si |-> sh.si, tc |-> TextOf(i)]

\* the sentence list of the shapes f[1..n]: ids are the positions, so distinct
SentenceList(f) == [i \in DOMAIN f |-> MkSentence(i, f[i])]

\* the list S cut into two paragraphs at position k (either may be empty)
CutAt(S, k) == <<[sc |-> SubSeq(S, 1, k)], [sc |-> SubSeq(S, k + 1, Len(S))]>>

\* the sentences of all paragraphs in document order
RECURSIVE Flatten(_)
Flatten(pg) == IF pg = <<>> THEN <<>> ELSE Head(pg).sc \o Flatten(Tail(pg))

IsSortedByBt(S) == \A i \in 1..(Len(S) - 1) : S[i].bt <= S[i + 1].bt

\* ------------------------------------------- TranscriptPanel: speakerGroups

\* `group-${sentence.id}`
GroupId(sentence) == [group |-> sentence.id]

\* a loop body that never pushes the group it closes
PanelGroupStepNoPush(acc, sentence) ==
    IF acc.currentGroup = Null \/ acc.currentGroup.speakerId # sentence.si
    THEN [groups |-> acc.groups,
          currentGroup |-> [id |-> GroupId(sentence), speakerId |-> sentence.si,
                            startTime |-> sentence.bt, endTime |-> sentence.et,
                            sentences |-> <<sentence>>, text |-> sentence.tc]]
    ELSE [groups |-> acc.groups,
          currentGroup |-> [acc.currentGroup EXCEPT
                              !.endTime = sentence.et,
                              !.sentences = Append(@, sentence),
                              !.text = @ \o sentence.tc]]

\* a loop body that leaves endTime at the first sentence's et
PanelGroupStepStaleEnd(acc, sentence) ==
    IF acc.currentGroup = Null \/ acc.currentGroup.speakerId # sentence.si
    THEN [groups |-> IF acc.currentGroup # Null
                     THEN Append(acc.groups, acc.currentGroup) ELSE acc.groups,
          currentGroup |-> [id |-> GroupId(sentence), speakerId |-> sentence.si,
                            startTime |-> sentence.bt, endTime |-> sentence.et,
                            sentences |-> <<sentence>>, text |-> sentence.tc]]
    ELSE [groups |-> acc.groups,
          currentGroup |-> [acc.currentGroup EXCEPT
                              !.sentences = Append(@, sentence),
                              !.text = @ \o sentence.tc]]

\* the body of the inner for loop, index.tsx:311-329
PanelGroupStep(acc, sentence) ==
    IF acc.currentGroup = Null \/ acc.currentGroup.speakerId # sentence.si
    THEN [groups |-> IF acc.currentGroup # Null
                     THEN Append(acc.groups, acc.currentGroup) ELSE acc.groups,
          currentGroup |-> [id |-> GroupId(sentence), speakerId |-> sentence.si,
                            startTime |-> sentence.bt, endTime |-> sentence.et,
                            sentences |-> <<sentence>>, text |-> sentence.tc]]
    ELSE [groups |-> acc.groups,
          currentGroup |-> [acc.currentGroup EXCEPT
                              !.endTime = sentence.et,
                              !.sentences = Append(@, sentence),
                              !.text = @ \o sentence.tc]]

\* for (const sentence of paragraph.sc)
RECURSIVE PanelSentenceLoop(_, _, _)
PanelSentenceLoop(acc, sc, i) ==
    IF i > Len(sc) THEN acc
    ELSE PanelSentenceLoop(PanelGroupStep(acc, sc[i]), sc, i + 1)

\* for (const paragraph of paragraphs)
RECURSIVE PanelParagraphLoop(_, _, _)
PanelParagraphLoop(acc, pg, p) ==
    IF p > Len(pg) THEN acc
    ELSE PanelParagraphLoop(PanelSentenceLoop(acc, pg[p].sc, 1), pg, p + 1)

\* a grouping that forgets the group still open when the loops end
SpeakerGroupsNoLast(pg) ==
    PanelParagraphLoop([groups |-> <<>>, currentGroup |-> Null], pg, 1).groups

\* the useMemo speakerGroups of the transcript panel, index.tsx:304-339
SpeakerGroups(pg) ==
    LET acc == PanelParagraphLoop([groups |-> <<>>, currentGroup |-> Null], pg, 1)
    IN  IF acc.currentGroup # Null THEN Append(acc.groups, acc.currentGroup)
        ELSE acc.groups

\* ---------------------------------------------- TranscriptPanel: lookups

\* Array.prototype.sort((a, b) => a.bt - b.bt) is stable: s goes behind every
\* element whose bt is <= s.bt
RECURSIVE InsertByBt(_, _)
InsertByBt(sorted, s) ==
    IF sorted = <<>> THEN <<s>>
    ELSE IF Head(sorted).bt <= s.bt THEN <<Head(sorted)>> \o InsertByBt(Tail(sorted), s)
    ELSE <<s>> \o sorted

RECURSIVE SortByBt(_, _)
SortByBt(S, n) == IF n = 0 THEN <<>> ELSE InsertByBt(SortByBt(S, n - 1), S[n])

\* the useMemo allSentences
AllSentences(pg) == LET S == Flatten(pg) IN SortByBt(S, Len(S))

\* a map that names the group of a sentence after the sentence itself
SentenceIdToGroupIdOwnId(groups) ==
    [id \in UNION {{groups[g].sentences[k].id : k \in 1..Len(groups[g].sentences)}
                      : g \in 1..Len(groups)}
        |-> [group |-> id]]

\* the useMemo sentenceIdToGroupId: map.set overwrites, so the last group wins
SentenceIdToGroupId(groups) ==
    LET Holds(g, id) == \E k \in 1..Len(groups[g].sentences) : groups[g].sentences[k].id = id
    IN  [id \in UNION {{groups[g].sentences[k].id : k \in 1..Len(groups[g].sentences)}
                          : g \in 1..Len(groups)}
            |-> groups[CHOOSE g \in 1..Len(groups) :
                          Holds(g, id) /\ \A h \in (g + 1)..Len(groups) : ~Holds(h, id)].id]

\* a search that tests bt < currentMs
BinarySearchStrict(sentences, currentMs, left, right, candidate) ==
    LET mid == (left + right) \div 2
    IN  IF sentences[mid + 1].bt < currentMs
        THEN [left |-> mid + 1, right |-> right, candidate |-> mid]
        ELSE [left |-> left, right |-> mid - 1, candidate |-> candidate]

\* one iteration of the while loop, index.tsx:381-387 (indices from 0 as in
\* the code; (left + right) >> 1 of non-negative integers is \div 2)
BinarySearchStep(sentences, currentMs, left, right, candidate) ==
    LET mid == (left + right) \div 2
    IN  IF sentences[mid + 1].bt <= currentMs
        THEN [left |-> mid + 1, right |-> right, candidate |-> mid]
        ELSE [left |-> left, right |-> mid - 1, candidate |-> candidate]

\* while (left <= right)
RECURSIVE BinarySearchLoop(_, _, _)
BinarySearchLoop(sentences, currentMs, st) ==
    IF st.left <= st.right
    THEN BinarySearchLoop(sentences, currentMs,
             BinarySearchStep(sentences, currentMs, st.left, st.right, st.candidate))
    ELSE st.candidate

\* the useMemo currentSentence
CurrentSentence(allSentences, currentMs) ==
    IF Len(allSentences) = 0 THEN Null
    ELSE LET candidate == BinarySearchLoop(allSentences, currentMs,
                  [left |-> 0, right |-> Len(allSentences) - 1, candidate |-> -1])
         IN  IF candidate = -1 THEN Null
             ELSE IF currentMs <= allSentences[candidate + 1].et
                  THEN allSentences[candidate + 1] ELSE Null

\* speakerGroups.find(g => g.id === groupId) || null
FindGroupById(groups, groupId) ==
    IF \E g \in 1..Len(groups) : groups[g].id = groupId
    THEN groups[CHOOSE g \in 1..Len(groups) :
                   groups[g].id = groupId /\ \A h \in 1..(g - 1) : groups[h].id # groupId]
    ELSE Null

\* the useMemo currentGroup
CurrentGroup(sentence, map, groups) ==
    IF sentence = Null THEN Null
    ELSE IF sentence.id \notin DOMAIN map THEN Null
    ELSE FindGroupById(groups, map[sentence.id])

\* the derived values of the transcript panel in the current state
speakerGroups == SpeakerGroups(paragraphs)
allSentences == AllSentences(paragraphs)
sentenceIdToGroupId == SentenceIdToGroupId(speakerGroups)
currentSentence == CurrentSentence(allSentences, renderTimeMs)
currentGroup == CurrentGroup(currentSentence, sentenceIdToGroupId, speakerGroups)

\* ------------------------------------------------- the playback clock sampler

Threshold == 180

\* a sampler that compares with the previous raw value
SampleEffectPrevRaw(nextMs, prevMs, render, visible, selecting) ==
    IF visible \/ selecting THEN render
    ELSE IF Abs(nextMs - prevMs) < Threshold THEN render
    ELSE nextMs

\* a sampler that ignores the selection state
SampleEffectNoSuspend(nextMs, prevMs, render, visible, selecting) ==
    IF Abs(nextMs - render) < Threshold THEN render ELSE nextMs

\* the effect body, index.tsx:364-369: the value of renderTimeMs after it ran
\* (prevMs, the raw value before the update, is not read by the code)
SampleEffect(nextMs, prevMs, render, visible, selecting) ==
    IF visible \/ selecting THEN render
    ELSE IF Abs(nextMs - render) < Threshold THEN render
    ELSE nextMs

\* ------------------------------------------------ VideoPlayer: speakerGroups

\* the useMemo allSentences of the player, part_003:59-69 (same stable sort)
PlayerAllSentences(pg) == LET S == Flatten(pg) IN SortByBt(S, Len(S))

\* the body of the for loop, part_003:82-99 (the player's groups carry no text)
PlayerGroupStep(acc, sentence) ==
    IF acc.currentGroup = Null \/ acc.currentGroup.speakerId # sentence.si
    THEN [groups |-> IF acc.currentGroup # Null
                     THEN Append(acc.groups, acc.currentGroup) ELSE acc.groups,
          currentGroup |-> [id |-> GroupId(sentence), speakerId |-> sentence.si,
                            startTime |-> sentence.bt, endTime |-> sentence.et,
                            sentences |-> <<sentence>>]]
    ELSE [groups |-> acc.groups,
          currentGroup |-> [acc.currentGroup EXCEPT
                              !.endTime = sentence.et,
                              !.sentences = Append(@, sentence)]]

\* for (const sentence of allSentences)
RECURSIVE PlayerSentenceLoop(_, _, _)
PlayerSentenceLoop(acc, sc, i) ==
    IF i > Len(sc) THEN acc
    ELSE PlayerSentenceLoop(PlayerGroupStep(acc, sc[i]), sc, i + 1)

\* the useMemo speakerGroups of the player
PlayerSpeakerGroups(sentences) ==
    LET acc == PlayerSentenceLoop([groups |-> <<>>, currentGroup |-> Null], sentences, 1)
    IN  IF acc.currentGroup # Null THEN Append(acc.groups, acc.currentGroup)
        ELSE acc.groups

playerGroups == PlayerSpeakerGroups(PlayerAllSentences(paragraphs))

\* ------------------------------------------------------------ initial state

NoMenu == [visible |-> FALSE, startTimeMs |-> 0, anchorGroupId |-> Null]

\* the state after the first render, for a transcript pg and an agenda list
InitState(pg, agenda) ==
    /\ paragraphs = pg
    /\ agendaItems = agenda
    /\ parsedTranscript = pg
    /\ speakerFilter = [useAll |-> TRUE, speakerIds |-> {}]
    /\ requests = <<>>
    /\ issued = 0
    /\ filterError = FALSE
    /\ lastResponse = Null
    /\ currentTime = 0
    /\ videoTime = 0
    /\ renderTimeMs = 0
    /\ isSelecting = FALSE
    /\ selectionMenu = NoMenu
    /\ clickOutsideArmed = FALSE
    /\ groupMarks = <<>>
    /\ transcriptMarks = <<>>
    /\ textMarks = <<>>
    /\ notes = <<>>
    /\ isNotePanelOpen = FALSE
    /\ now = 0
    /\ buttonHeld = FALSE
    /\ markLog = <<>>
    /\ forceScrollSentence = Null
    /\ selectedGroupId = Null
    /\ fed = 0
    /\ updates = 0

\* the history starts with no handler run
InitApp(pg, agenda) ==
    /\ InitState(pg, agenda)
    /\ lastOp = "init"
    /\ prevOp = "init"

\* the same start for the runs whose history keeps the arguments of a step
InitArgs(pg) ==
    /\ InitState(pg, <<>>)
    /\ lastOp = [op |-> "init"]
    /\ prevOp = [op |-> "init"]

InitWith(pg) == InitApp(pg, <<>>)

\* ------------------------------------------------------------------ effects

SyncThreshold == 500

\* the player's time sync effect, part_003:287-291: the video position after it ran
SyncEffect(video, current) ==
    IF Abs(video - current) > SyncThreshold THEN current ELSE video

\* renderTimeMs after the commit of a render in which currentTime became nextMs
\* and the menu's visibility became visible; the sampling effect runs only when
\* one of its dependencies [currentTime, renderTimeMs, selectionMenu.visible]
\* changed, and its second run (after setRenderTimeMs) changes nothing
RenderTimeAfter(nextMs, visible, selecting) ==
    IF nextMs # currentTime \/ visible # selectionMenu.visible
    THEN SampleEffect(nextMs, currentTime, renderTimeMs, visible, selecting)
    ELSE renderTimeMs

\* ------------------------------------------------------------------ playback

\* the video element's timeupdate event at position r: handleTimeUpdate,
\* part_003:306-310, then App.handleTimeUpdate and the effects of the render
HandleTimeUpdate(r) ==
    /\ videoTime' = SyncEffect(r, r)
    /\ currentTime' = r
    /\ renderTimeMs' = RenderTimeAfter(r, selectionMenu.visible, isSelecting)
    /\ UNCHANGED <<paragraphs, appVars, selVars, markVars, navVars>>

\* ------------------------------------------------------ lookup specification

\* every transcript of at most MaxSentences sentences (bt <= et, any time
\* order) in two paragraphs, and the transcript without paragraphs
InitLookup ==
    \/ InitWith(<<>>)
    \/ \E n \in 0..MaxSentences : \E f \in [1..n -> SentenceShapes] : \E k \in 0..n :
          InitWith(CutAt(SentenceList(f), k))

LookupTimeUpdate ==
    \E r \in QueryTimes : HandleTimeUpdate(r) /\ UNCHANGED histVars

NextLookup == LookupTimeUpdate

SpecLookup == InitLookup /\ [][NextLookup]_vars

\* ------------------------------------------- derived caches specification

\* every generated transcript, played from its start to past its end
CacheTimes == {0, 1000}

CachesTimeUpdate ==
    \E r \in CacheTimes : HandleTimeUpdate(r) /\ UNCHANGED histVars

NextCaches == CachesTimeUpdate

SpecCaches == InitLookup /\ [][NextCaches]_vars

\* ------------------------------------------------- text selection gestures

\* a time in ms as the exact fraction num / den, den > 0 (the code computes it
\* in double precision)
Ms(n) == [num |-> n, den |-> 1]

\* one iteration of the loop of computeSelectionStartTimeMs, index.tsx:470-479,
\* for the sentence at index k with the texts before it ending at cursor
RECURSIVE SelectionTimeLoop(_, _, _, _)
SelectionTimeLoop(group, prefixTextLength, k, cursor) ==
    IF k > Len(group.sentences) THEN Ms(group.startTime)
    ELSE LET sentence == group.sentences[k]
             nextCursor == cursor + Len(sentence.tc)
             offsetInSentence == IF prefixTextLength - cursor > 0
                                 THEN prefixTextLength - cursor ELSE 0
         IN  IF prefixTextLength <= nextCursor
             THEN IF Len(sentence.tc) > 0
                  THEN [num |-> sentence.bt * Len(sentence.tc)
                                + offsetInSentence * (sentence.et - sentence.bt),
                        den |-> Len(sentence.tc)]
                  ELSE Ms(sentence.bt)
             ELSE SelectionTimeLoop(group, prefixTextLength, k + 1, nextCursor)

\* a computation that counts one character too many before the selection
ComputeSelectionStartTimeMsNextSentence(group, prefixTextLength, throws) ==
    IF throws THEN Ms(group.startTime)
    ELSE SelectionTimeLoop(group, prefixTextLength + 1, 1, 0)

\* computeSelectionStartTimeMs, index.tsx:462-484: prefixTextLength is the
\* length of the text before the selection, throws whether a range call fails
ComputeSelectionStartTimeMs(group, prefixTextLength, throws) ==
    IF throws THEN Ms(group.startTime)
    ELSE SelectionTimeLoop(group, prefixTextLength, 1, 0)

\* a time of the menu in whole ms: the interpolation gives whole numbers for
\* the transcripts in which a menu is opened here
WholeMs(r) == r.num \div r.den

\* what handleTextSelection finds in window.getSelection()
SelectionOutcomes == {"empty", "outside", "noRange", "show"}

\* the menu's effect [selectionMenu.visible] (index.tsx:552-573) re-runs when the
\* visibility changes: its cleanup removes the mousedown listener and the new
\* run attaches it only after a 100 ms timer
ArmedAfter(visible) ==
    IF visible = selectionMenu.visible THEN clickOutsideArmed ELSE FALSE

\* handleTextMouseDown, index.tsx:592-596, on the press of the button over a
\* group's text
HandleTextMouseDown ==
    /\ isSelecting' = TRUE
    /\ selectionMenu' = [selectionMenu EXCEPT !.visible = FALSE]
    /\ clickOutsideArmed' = ArmedAfter(FALSE)
    /\ renderTimeMs' = RenderTimeAfter(currentTime, FALSE, TRUE)
    /\ buttonHeld' = TRUE
    /\ UNCHANGED <<paragraphs, agendaItems, filterVars, noteVars, currentTime, videoTime,
                   markVars, navVars>>

\* a mouse-up handler that leaves isSelectingRef set
HandleTextMouseUpStillSelecting(g, outcome, p) ==
    LET menu == CASE outcome \in {"empty", "outside"} ->
                       [selectionMenu EXCEPT !.visible = FALSE]
                  [] outcome = "noRange" -> selectionMenu
                  [] outcome = "show" ->
                       [visible |-> TRUE,
                        startTimeMs |-> WholeMs(ComputeSelectionStartTimeMs(
                                            speakerGroups[g], p, FALSE)),
                        anchorGroupId |-> speakerGroups[g].id]
    IN  /\ isSelecting' = isSelecting
        /\ selectionMenu' = menu
        /\ clickOutsideArmed' = ArmedAfter(menu.visible)
        /\ renderTimeMs' = RenderTimeAfter(currentTime, menu.visible, isSelecting)
        /\ buttonHeld' = FALSE
        /\ UNCHANGED <<paragraphs, agendaItems, filterVars, noteVars, currentTime,
                       videoTime, markVars, navVars>>

\* handleTextMouseUp on the text of group g, index.tsx:587-590, with
\* handleTextSelection, index.tsx:438-512; p is the selection's start offset
\* in the group's text
HandleTextMouseUp(g, outcome, p) ==
    LET menu == CASE outcome \in {"empty", "outside"} ->
                       [selectionMenu EXCEPT !.visible = FALSE]
                  [] outcome = "noRange" -> selectionMenu
                  [] outcome = "show" ->
                       [visible |-> TRUE,
                        startTimeMs |-> WholeMs(ComputeSelectionStartTimeMs(
                                            speakerGroups[g], p, FALSE)),
                        anchorGroupId |-> speakerGroups[g].id]
    IN  /\ isSelecting' = FALSE
        /\ selectionMenu' = menu
        /\ clickOutsideArmed' = ArmedAfter(menu.visible)
        /\ renderTimeMs' = RenderTimeAfter(currentTime, menu.visible, FALSE)
        /\ buttonHeld' = FALSE
        /\ UNCHANGED <<paragraphs, agendaItems, filterVars, noteVars, currentTime,
                       videoTime, markVars, navVars>>

\* the timer of index.tsx:565-567 fires
ArmClickOutside ==
    /\ selectionMenu.visible
    /\ ~clickOutsideArmed
    /\ clickOutsideArmed' = TRUE
    /\ UNCHANGED <<paragraphs, appVars, timeVars, isSelecting, selectionMenu, markVars, navVars>>

\* the menu is hidden by one of its handlers; the sampling effect then runs
CloseMenu(nextMs) ==
    /\ selectionMenu' = [selectionMenu EXCEPT !.visible = FALSE]
    /\ clickOutsideArmed' = ArmedAfter(FALSE)
    /\ renderTimeMs' = RenderTimeAfter(nextMs, FALSE, isSelecting)

\* handleClickOutside, index.tsx:555-562: a mousedown outside the menu and
\* outside any group text
HandleClickOutside ==
    /\ selectionMenu.visible
    /\ clickOutsideArmed
    /\ CloseMenu(currentTime)
    /\ UNCHANGED <<paragraphs, appVars, currentTime, videoTime, isSelecting, markVars, navVars>>

\* the menu's quick-extract button, index.tsx:619-626; App.tsx has no listener
\* for the oneClickSummary event it dispatches (the listener of the other App
\* is HandleOneClickSummary below)
QuickExtract ==
    /\ selectionMenu.visible
    /\ CloseMenu(currentTime)
    /\ UNCHANGED <<paragraphs, appVars, currentTime, videoTime, isSelecting, markVars, navVars>>

MarkTypes == {"important", "question", "todo"}
NoMark == "null"         \* the MarkType null

\* markId, index.tsx:639: `sel-${Math.round(selectionMenu.startTimeMs)}`
\* (startTimeMs is a whole number of ms for the transcripts selected in here)
MarkId(startTimeMs) == [sel |-> startTimeMs]

\* markColors, index.tsx:643-647
MarkColors == [important |-> "#60a5fa", question |-> "#f472b6", todo |-> "#fbbf24"]

\* newMark of dispatchMark, index.tsx:652-660 (the selected text is not kept)
NewTextMark(menu, type) ==
    [id |-> MarkId(menu.startTimeMs), groupId |-> menu.anchorGroupId,
     startTimeMs |-> menu.startTimeMs, endTimeMs |-> menu.startTimeMs + 5000,
     type |-> type, color |-> MarkColors[type]]

\* the player's textMarkAdded listener, part_004:533-561
HandleTextMarkAdded(prev, detail) ==
    LET newMark == [groupId |-> detail.id, type |-> detail.type,
                    timeMs |-> detail.startTimeMs]
        existed == {i \in 1..Len(prev) : prev[i].groupId = detail.id}
    IN  IF existed = {} THEN Append(prev, newMark)
        ELSE [prev EXCEPT ![CHOOSE i \in existed : \A j \in existed : i <= j] = newMark]

\* dispatchMark(type), index.tsx:649-673, with the listener of the
\* textMarkAdded event it dispatches
DispatchMark(type) ==
    /\ selectionMenu.visible
    /\ IF type # NoMark /\ selectionMenu.anchorGroupId # Null
       THEN /\ textMarks' = Append(textMarks, NewTextMark(selectionMenu, type))
            /\ transcriptMarks' = HandleTextMarkAdded(transcriptMarks,
                                      NewTextMark(selectionMenu, type))
            /\ CloseMenu(currentTime)
            /\ UNCHANGED <<paragraphs, appVars, currentTime, videoTime, isSelecting,
                           groupMarks, markLog, navVars>>
       ELSE UNCHANGED <<paragraphs, appVars, timeVars, selVars, markVars, navVars>>

\* the menu's play-audio button, index.tsx:726-733, with the player's
\* handlePlayFromTime, part_004:570-576
PlayAudio ==
    LET timeMs == IF selectionMenu.startTimeMs > 0 THEN selectionMenu.startTimeMs ELSE 0
    IN  /\ selectionMenu.visible
        /\ videoTime' = timeMs
        /\ currentTime' = timeMs
        /\ CloseMenu(timeMs)
        /\ UNCHANGED <<paragraphs, appVars, isSelecting, markVars, navVars>>

\* ----------------------------------------------------- sampler specification

\* the raw times of the sampler example of the specification
Script == <<0, 50, 100, 170, 200>>

RawTimes == {0, 50, 100, 170, 200, 380, 600}

\* two groups: speaker 1 over [0, 400] (sentences 1 and 2), speaker 2 over
\* [600, 1000] (sentence 4), with a gap between them
SamplerTranscript ==
    <<[sc |-> <<MkSentence(1, [bt |-> 0, et |-> 200, si |-> 1]),
                MkSentence(2, [bt |-> 200, et |-> 400, si |-> 1])>>],
      [sc |-> <<MkSentence(4, [bt |-> 600, et |-> 1000, si |-> 2])>>]>>

InitSampler == InitWith(SamplerTranscript)

\* the history of a step of handler op
Record(op) ==
    /\ lastOp' = op
    /\ prevOp' = lastOp

OffScript == fed' = -1 /\ updates' = 0

\* the history of a step of handler op in the specifications without a script
NavRecord(op) == lastOp' = op /\ UNCHANGED <<fed, updates, prevOp>>

SamplerTimeUpdate ==
    \E r \in RawTimes :
        /\ HandleTimeUpdate(r)
        /\ Record(IF Abs(r - renderTimeMs) >= Threshold THEN "timeUpdateFar"
                  ELSE "timeUpdate")
        /\ IF fed >= 0 /\ fed < Len(Script) /\ r = Script[fed + 1]
           THEN /\ fed' = fed + 1
                /\ updates' = IF renderTimeMs' # renderTimeMs THEN updates + 1 ELSE updates
           ELSE OffScript

SamplerMouseDown == HandleTextMouseDown /\ Record("mouseDown") /\ OffScript

SamplerMouseUp ==
    \E g \in 1..Len(speakerGroups) : \E outcome \in SelectionOutcomes :
        \E p \in 0..Len(speakerGroups[g].text) :
            /\ outcome # "show" => g = 1 /\ p = 0
            /\ HandleTextMouseUp(g, outcome, p)
            /\ Record(IF outcome = "show" THEN "mouseUpShow"
                      ELSE IF outcome = "noRange" THEN "mouseUpKeep" ELSE "mouseUpHide")
            /\ OffScript

SamplerArm == ArmClickOutside /\ Record("arm") /\ OffScript

SamplerClickOutside == HandleClickOutside /\ Record("clickOutside") /\ OffScript

SamplerQuickExtract == QuickExtract /\ Record("quickExtract") /\ OffScript

\* the sampler runs add one selection mark at most, at the start of the text
SamplerMark ==
    \E type \in {"important", NoMark} :
        /\ type # NoMark => textMarks = <<>> /\ selectionMenu.startTimeMs = 0
        /\ DispatchMark(type)
        /\ Record(IF type = NoMark THEN "markNull" ELSE "mark")
        /\ OffScript

SamplerPlayAudio == PlayAudio /\ Record("playAudio") /\ OffScript

NextSampler ==
    \/ SamplerTimeUpdate
    \/ SamplerMouseDown
    \/ SamplerMouseUp
    \/ SamplerArm
    \/ SamplerClickOutside
    \/ SamplerQuickExtract
    \/ SamplerMark
    \/ SamplerPlayAudio

SpecSampler == InitSampler /\ [][NextSampler]_vars

\* ------------------------------------------------ gesture specification

\* the button is released outside every group text: onMouseUp is bound to the
\* text element of a group only (index.tsx:204-210), so no handler runs
ReleaseOutsideText ==
    /\ buttonHeld' = FALSE
    /\ UNCHANGED <<paragraphs, agendaItems, filterVars, noteVars, timeVars, selVars,
                   markVars, navVars>>

InitGesture == InitWith(SamplerTranscript)

GestureTimeUpdate ==
    \E r \in RawTimes : HandleTimeUpdate(r) /\ Record("timeUpdate") /\ OffScript

GesturePress ==
    /\ ~buttonHeld
    /\ HandleTextMouseDown
    /\ Record("mouseDown")
    /\ OffScript

GestureReleaseOnText ==
    \E g \in 1..Len(speakerGroups) : \E outcome \in SelectionOutcomes :
        /\ buttonHeld
        /\ HandleTextMouseUp(g, outcome, 0)
        /\ Record("mouseUp")
        /\ OffScript

GestureReleaseOutside ==
    /\ buttonHeld
    /\ ReleaseOutsideText
    /\ Record("releaseOutside")
    /\ OffScript

GestureClickOutside ==
    /\ ~buttonHeld
    /\ ArmClickOutside \/ HandleClickOutside
    /\ Record("clickOutside")
    /\ OffScript

NextGesture ==
    \/ GestureTimeUpdate
    \/ GesturePress
    \/ GestureReleaseOnText
    \/ GestureReleaseOutside
    \/ GestureClickOutside

SpecGesture == InitGesture /\ [][NextGesture]_vars

\* ------------------------------------------- selection time specification

\* the sentences a group's text is selected in: spans in order, touching,
\* overlapping or empty, with texts of 0, 1 or MaxTextLen characters
SelectionShapes ==
    [span : {<<0, 100>>, <<100, 200>>, <<100, 100>>, <<200, 300>>},
     len : {0, 1, MaxTextLen}]

\* one paragraph of one speaker, so one group
SelectionTranscript(f) ==
    <<[sc |-> [i \in DOMAIN f |->
                 [id |-> i, bt |-> f[i].span[1], et |-> f[i].span[2], si |-> 1,
                  tc |-> [k \in 1..f[i].len |-> i]]]]>>

InitSelTime ==
    \E n \in 1..MaxSelSentences : \E f \in [1..n -> SelectionShapes] :
        InitArgs(SelectionTranscript(f))

\* computeSelectionStartTimeMs applied once to a selection that starts at
\* offset p of the text of group g
SelTimeCompute ==
    LET groups == speakerGroups
    IN  \E g \in 1..Len(groups) : \E p \in 0..(Len(groups[g].text) + 1) :
            \E throws \in BOOLEAN :
                /\ lastOp.op = "init"
                /\ lastOp' = [op |-> "selectionStart", g |-> g, p |-> p,
                              throws |-> throws,
                              result |-> ComputeSelectionStartTimeMs(groups[g], p,
                                                                     throws)]
                /\ prevOp' = lastOp
                /\ UNCHANGED <<paragraphs, appVars, timeVars, selVars, markVars,
                               navVars, fed, updates>>

NextSelTime == SelTimeCompute

SpecSelTime == InitSelTime /\ [][NextSelTime]_vars

\* ------------------------------------------- selection mark specification

InitSelMarks == InitWith(SamplerTranscript)

SelMarksMouseDown == HandleTextMouseDown /\ Record("mouseDown") /\ OffScript

SelMarksMouseUp ==
    \E g \in 1..Len(speakerGroups) : \E p \in 0..Len(speakerGroups[g].text) :
        /\ HandleTextMouseUp(g, "show", p)
        /\ Record("mouseUpShow")
        /\ OffScript

SelMarksClickOutside ==
    /\ ArmClickOutside \/ HandleClickOutside
    /\ Record("clickOutside")
    /\ OffScript

SelMarksMark ==
    \E type \in MarkTypes :
        /\ Len(textMarks) < MaxTextMarks
        /\ DispatchMark(type)
        /\ Record("mark")
        /\ OffScript

NextSelMarks ==
    \/ SelMarksMouseDown
    \/ SelMarksMouseUp
    \/ SelMarksClickOutside
    \/ SelMarksMark

SpecSelMarks == InitSelMarks /\ [][NextSelMarks]_vars

\* ------------------------------------------------------------- group marks

\* previewText of a group, index.tsx:749
PreviewText(text) ==
    IF Len(text) > 18 THEN SubSeq(text, 1, 18) \o <<-1, -1, -1>> ELSE text

\* { ...prev, [key]: value }
Spread(prev, key, value) ==
    [k \in DOMAIN prev \cup {key} |-> IF k = key THEN value ELSE prev[k]]

\* groupMarks[id] ?? null, index.tsx:747
MarkOf(marks, id) == IF id \in DOMAIN marks THEN marks[id] ELSE NoMark

\* an update that keeps the mark a group already has
SetGroupMarkFirstWins(prev, id, type) ==
    IF id \in DOMAIN prev /\ prev[id] # NoMark THEN prev ELSE Spread(prev, id, type)

\* the updater of setGroupMarks, index.tsx:581
SetGroupMark(prev, id, type) == Spread(prev, id, type)

\* a listener that adds an entry for every non-null change
HandleTranscriptMarkChangeAppend(prev, detail) ==
    IF detail.type = NoMark
    THEN SelectSeq(prev, LAMBDA m : m.groupId # detail.groupId)
    ELSE Append(prev, [groupId |-> detail.groupId, type |-> detail.type,
                       timeMs |-> detail.timeMs, text |-> detail.text])

\* the player's transcriptMarkChange listener, part_004:501-524
HandleTranscriptMarkChange(prev, detail) ==
    LET existed == {i \in 1..Len(prev) : prev[i].groupId = detail.groupId}
        nextItem == [groupId |-> detail.groupId, type |-> detail.type,
                     timeMs |-> detail.timeMs, text |-> detail.text]
    IN  IF detail.type = NoMark
        THEN SelectSeq(prev, LAMBDA m : m.groupId # detail.groupId)
        ELSE IF existed = {} THEN Append(prev, nextItem)
        ELSE [prev EXCEPT ![CHOOSE i \in existed : \A j \in existed : i <= j] = nextItem]

\* handleMarkChange(group, type, previewText), index.tsx:580-585, with the
\* listener of the event it dispatches
HandleMarkChange(g, type) ==
    LET group == speakerGroups[g]
    IN  /\ Len(markLog) < MaxMarkOps
        /\ groupMarks' = SetGroupMark(groupMarks, group.id, type)
        /\ UNCHANGED textMarks
        /\ transcriptMarks' = HandleTranscriptMarkChange(transcriptMarks,
                                  [groupId |-> group.id, type |-> type,
                                   timeMs |-> group.startTime,
                                   text |-> PreviewText(group.text)])
        /\ markLog' = Append(markLog, [groupId |-> group.id, type |-> type])
        /\ UNCHANGED <<paragraphs, appVars, timeVars, selVars, navVars>>

\* --------------------------------------------------- group mark specification

\* MaxSentences groups of one sentence each, the speakers alternating
MarksTranscript ==
    <<[sc |-> [i \in 1..MaxSentences |->
                 MkSentence(i, [bt |-> (i - 1) * 400, et |-> i * 400,
                                si |-> ((i - 1) % 2) + 1])]]>>

InitMarks == InitWith(MarksTranscript)

MarksChange ==
    \E g \in 1..Len(speakerGroups) : \E type \in MarkTypes \cup {NoMark} :
        /\ HandleMarkChange(g, type)
        /\ Record("markChange")
        /\ UNCHANGED <<fed, updates>>

NextMarks == MarksChange

SpecMarks == InitMarks /\ [][NextMarks]_vars

\* ------------------------------- selection marks and group marks together

\* a selection that starts at the first character of a group
BothMouseUp ==
    \E g \in 1..Len(speakerGroups) :
        /\ HandleTextMouseUp(g, "show", 0)
        /\ NavRecord("mouseUpShow")

BothTextMark ==
    \E type \in MarkTypes :
        /\ Len(textMarks) < MaxTextMarks
        /\ DispatchMark(type)
        /\ NavRecord("mark")

BothGroupMark ==
    \E g \in 1..Len(speakerGroups) : \E type \in {"todo", NoMark} :
        /\ Len(markLog) < MaxTextMarks
        /\ HandleMarkChange(g, type)
        /\ NavRecord("markChange")

NextBothMarks ==
    \/ BothMouseUp
    \/ BothTextMark
    \/ BothGroupMark

SpecBothMarks == InitSelMarks /\ [][NextBothMarks]_vars

\* --------------------------------------------- previous / next utterance

\* Array.prototype.findIndex: the least of the 0-based indexes hits, -1 without one
FindIndex(hits) ==
    IF hits = {} THEN -1 ELSE CHOOSE i \in hits : \A j \in hits : i <= j

\* currentIdx of the two jumps, part_003:138-146 and part_003:191-199
CurrentIdx(groups, currentMs) ==
    LET found == FindIndex({i \in 0..(Len(groups) - 1) :
                              /\ currentMs >= groups[i + 1].startTime
                              /\ currentMs <= groups[i + 1].endTime})
    IN  IF found = -1
        THEN FindIndex({i \in 0..(Len(groups) - 1) :
                          groups[i + 1].startTime > currentMs}) - 1
        ELSE found

\* the jump to the group at 0-based index i: the seek, onTimeUpdate with the
\* render it causes, and onSentenceChange, part_003:164-167 / 217-220
SeekToGroup(groups, i) ==
    LET target == groups[i + 1]
    IN  /\ videoTime' = SyncEffect(target.startTime, target.startTime)
        /\ currentTime' = target.startTime
        /\ renderTimeMs' = RenderTimeAfter(target.startTime, selectionMenu.visible,
                                           isSelecting)
        /\ forceScrollSentence' = target.sentences[1]
        /\ UNCHANGED <<paragraphs, appVars, selVars, markVars, selectedGroupId>>

NoJump == UNCHANGED <<paragraphs, appVars, timeVars, selVars, markVars, navVars>>

\* jumpToPrevSentence, part_003:123-173
JumpToPrevSentence ==
    LET groups == playerGroups
        currentIdx == CurrentIdx(groups, videoTime)
        same == {i \in 0..(currentIdx - 1) :
                    groups[i + 1].speakerId = groups[currentIdx + 1].speakerId}
    IN  IF Len(groups) = 0 \/ currentIdx <= 0 \/ same = {} THEN NoJump
        ELSE SeekToGroup(groups, CHOOSE i \in same : \A j \in same : j <= i)

\* jumpToNextSentence, part_003:176-226
JumpToNextSentence ==
    LET groups == playerGroups
        currentIdx == CurrentIdx(groups, videoTime)
        same == {i \in (currentIdx + 1)..(Len(groups) - 1) :
                    groups[i + 1].speakerId = groups[currentIdx + 1].speakerId}
    IN  IF Len(groups) = 0 \/ currentIdx < 0 \/ currentIdx >= Len(groups) - 1
           \/ same = {}
        THEN NoJump
        ELSE SeekToGroup(groups, CHOOSE i \in same : \A j \in same : i <= j)

\* ------------------------------------------------ navigation specification

\* a sentence of a navigation transcript lasts 400 ms
NavGaps == {0, 200}      \* silence before a sentence

\* the sentences 1..n laid end to end in time order, sentence i of speaker
\* si[i] starting gap[i] after the end of sentence i - 1
RECURSIVE NavStart(_, _)
NavStart(gap, i) ==
    IF i = 1 THEN gap[1] ELSE NavStart(gap, i - 1) + 400 + gap[i]

NavTranscript(si, gap) ==
    <<[sc |-> [i \in DOMAIN si |->
                 MkSentence(i, [bt |-> NavStart(gap, i),
                                et |-> NavStart(gap, i) + 400,
                                si |-> si[i]])]]>>

InitNav ==
    \E n \in 1..MaxNavSentences : \E si \in [1..n -> Speakers] :
        \E gap \in [1..n -> NavGaps] : InitWith(NavTranscript(si, gap))

\* the playback positions: every 200 ms up to 200 ms past the last sentence
NavTimes ==
    LET S == PlayerAllSentences(paragraphs)
    IN  {200 * k : k \in 0..((S[Len(S)].et \div 200) + 1)}

NavTimeUpdate == \E r \in NavTimes : HandleTimeUpdate(r) /\ NavRecord("timeUpdate")

NavPrev == JumpToPrevSentence /\ NavRecord("prevSentence")

NavNext == JumpToNextSentence /\ NavRecord("nextSentence")

NextNav ==
    \/ NavTimeUpdate
    \/ NavPrev
    \/ NavNext

SpecNav == InitNav /\ [][NextNav]_vars

\* ------------------------------------------------------------------ agenda

\* item.time !== undefined && item.endTime !== undefined
IsDated(item) == "time" \in DOMAIN item /\ "endTime" \in DOMAIN item

\* isActiveAgenda(item), SmartOverview/index.tsx:40-44
IsActiveAgenda(item, currentMs) ==
    IF ~("time" \in DOMAIN item) \/ ~("endTime" \in DOMAIN item) THEN FALSE
    ELSE currentMs >= item.time /\ currentMs <= item.endTime

\* the value of an id where null may stand
IdValue(n) == [id |-> n]

\* currentPlayingId, SmartOverview/index.tsx:61-68
CurrentPlayingId(items, currentMs) ==
    LET active == {i \in 1..Len(items) : IsActiveAgenda(items[i], currentMs)}
    IN  IF active = {} THEN Null
        ELSE IdValue(items[CHOOSE i \in active : \A j \in active : i <= j].id)

\* a scan that lets an item without endTime match from its time on
AgendaFindIndexOpenEnded(items, currentMs) ==
    FindIndex({i \in 0..(Len(items) - 1) :
                 /\ "time" \in DOMAIN items[i + 1]
                 /\ currentMs >= items[i + 1].time
                 /\ ("endTime" \in DOMAIN items[i + 1] => currentMs <= items[i + 1].endTime)})

\* agendaItems.findIndex(item => dated && time <= currentMs <= endTime),
\* part_004:426-429 (0-based, -1 without a match)
AgendaFindIndex(items, currentMs) ==
    FindIndex({i \in 0..(Len(items) - 1) :
                 /\ IsDated(items[i + 1])
                 /\ currentMs >= items[i + 1].time
                 /\ currentMs <= items[i + 1].endTime})

\* getAgendaItemByTime(timeMs), part_004:459-461
GetAgendaItemByTime(items, timeMs) ==
    LET hits == {i \in 1..Len(items) :
                   /\ IsDated(items[i])
                   /\ timeMs >= items[i].time
                   /\ timeMs <= items[i].endTime}
    IN  IF hits = {} THEN Null ELSE items[CHOOSE i \in hits : \A j \in hits : i <= j]

currentPlayingId == CurrentPlayingId(agendaItems, currentTime)
currentSegmentIndex == AgendaFindIndex(agendaItems, currentTime)

\* currentIndex of the two segment jumps, part_004:344-361 and 392-409: the
\* first dated item with time <= currentMs < endTime - 100, else the first
\* with time <= currentMs <= endTime
SegmentIndex(items, currentMs) ==
    LET strict == FindIndex({i \in 0..(Len(items) - 1) :
                               /\ IsDated(items[i + 1])
                               /\ currentMs >= items[i + 1].time
                               /\ currentMs < items[i + 1].endTime - 100})
    IN  IF strict = -1 THEN AgendaFindIndex(items, currentMs) ELSE strict

\* the seek of a segment jump and onTimeUpdate with the render it causes,
\* part_004:368-369 / 416-417
SeekToItem(item) ==
    /\ videoTime' = SyncEffect(item.time, item.time)
    /\ currentTime' = item.time
    /\ renderTimeMs' = RenderTimeAfter(item.time, selectionMenu.visible, isSelecting)
    /\ UNCHANGED <<paragraphs, appVars, selVars, markVars, navVars>>

\* jumpToPrevSegment, part_004:330-375
JumpToPrevSegment ==
    LET currentIndex == SegmentIndex(agendaItems, videoTime)
    IN  IF Len(agendaItems) = 0 THEN NoJump
        ELSE IF currentIndex > 0
        THEN IF "time" \in DOMAIN agendaItems[currentIndex]
             THEN SeekToItem(agendaItems[currentIndex])
             ELSE NoJump
        ELSE NoJump

\* jumpToNextSegment, part_004:378-423
JumpToNextSegment ==
    LET currentIndex == SegmentIndex(agendaItems, videoTime)
    IN  IF Len(agendaItems) = 0 THEN NoJump
        ELSE IF currentIndex < Len(agendaItems) - 1
        THEN IF "time" \in DOMAIN agendaItems[currentIndex + 2]
             THEN SeekToItem(agendaItems[currentIndex + 2])
             ELSE NoJump
        ELSE NoJump

\* ---------------------------------------------------- agenda specification

\* an agenda item without its id: undated, with one bound only, or dated
AgendaShapes ==
    {[title |-> "chapter"]}
    \cup {[title |-> "chapter", time |-> t] : t \in {0, 1000}}
    \cup {[title |-> "chapter", endTime |-> t] : t \in {500}}
    \cup {[title |-> "chapter", time |-> iv[1], endTime |-> iv[2]] :
            iv \in {<<0, 500>>, <<500, 1000>>, <<1000, 1500>>, <<600, 1000>>, <<0, 50>>,
                    <<500, 600>>}}

\* the agenda list of the shapes f[1..n]: ids are the positions, so distinct
AgendaList(f) == [i \in DOMAIN f |-> f[i] @@ [id |-> i]]

InitAgenda ==
    \E n \in 0..MaxAgendaItems : \E f \in [1..n -> AgendaShapes] :
        InitApp(<<>>, AgendaList(f))

AgendaTimes == {0, 25, 250, 450, 500, 550, 1000, 1250, 1500, 1750}

AgendaTimeUpdate == \E r \in AgendaTimes : HandleTimeUpdate(r) /\ NavRecord("timeUpdate")

AgendaPrev == JumpToPrevSegment /\ NavRecord("prevSegment")

AgendaNext == JumpToNextSegment /\ NavRecord("nextSegment")

NextAgenda ==
    \/ AgendaTimeUpdate
    \/ AgendaPrev
    \/ AgendaNext

SpecAgenda == InitAgenda /\ [][NextAgenda]_vars

\* ---------------------------------------------------------- speaker filter

\* the data of a successful answer of /api/transcript/filter to speakerIds:
\* the sentences of the full transcript whose speaker is among them
FilterData(pg, speakerIds) ==
    [p \in DOMAIN pg |->
        [sc |-> SelectSeq(pg[p].sc, LAMBDA sentence : sentence.si \in speakerIds)]]

\* the sequence s without its element at index i
RemoveAt(s, i) == SubSeq(s, 1, i - 1) \o SubSeq(s, i + 1, Len(s))

\* handleSpeakerFilterChange(nextFilter) up to its first await,
\* dev_start.sh:260-271
HandleSpeakerFilterChange(nextFilter) ==
    /\ nextFilter.useAll \/ issued < MaxRequests
    /\ speakerFilter' = nextFilter
    /\ IF parsedTranscript = Null
       THEN UNCHANGED <<paragraphs, requests, issued>>
       ELSE IF nextFilter.useAll
       THEN /\ paragraphs' = parsedTranscript
            /\ UNCHANGED <<requests, issued>>
       ELSE /\ requests' = Append(requests, [seq |-> issued + 1,
                                              speakerIds |-> nextFilter.speakerIds,
                                              stage |-> "fetch"])
            /\ issued' = issued + 1
            /\ UNCHANGED paragraphs
    /\ UNCHANGED <<agendaItems, noteVars, buttonHeld,
                   parsedTranscript, filterError, timeVars, selVars,
                   markVars, navVars>>

\* the outcomes of the awaited fetch: it rejects, or resolves with res.ok
\* false or true
FetchOutcomes == {"reject", "notOk", "ok"}

\* the continuation after `await fetch(...)`, dev_start.sh:267-273: a
\* rejection and the throw on !res.ok both end in the catch block
FetchSettles(i, outcome) ==
    /\ i \in DOMAIN requests
    /\ requests[i].stage = "fetch"
    /\ requests' = IF outcome = "ok" THEN [requests EXCEPT ![i].stage = "json"]
                   ELSE RemoveAt(requests, i)
    /\ UNCHANGED <<paragraphs, agendaItems, noteVars, buttonHeld,
                   parsedTranscript, speakerFilter, issued,
                   filterError, timeVars, selVars, markVars, navVars>>

\* the outcomes of the awaited res.json(): it rejects, or resolves to a body
\* with code !== 0, with code 0 and no data, or with code 0 and data
JsonOutcomes == {"reject", "codeNonZero", "noData", "success"}

\* a continuation that adopts the data of the request issued last only
JsonSettlesLatestOnly(i, outcome) ==
    /\ i \in DOMAIN requests
    /\ requests[i].stage = "json"
    /\ requests' = RemoveAt(requests, i)
    /\ paragraphs' = IF outcome = "success" /\ requests[i].seq = issued
                     THEN FilterData(parsedTranscript, requests[i].speakerIds)
                     ELSE paragraphs
    /\ UNCHANGED <<agendaItems, noteVars, buttonHeld,
                   parsedTranscript, speakerFilter, issued, filterError,
                   timeVars, selVars, markVars, navVars>>

\* a continuation that clears the display when the body carries no data
JsonSettlesClearing(i, outcome) ==
    /\ i \in DOMAIN requests
    /\ requests[i].stage = "json"
    /\ requests' = RemoveAt(requests, i)
    /\ paragraphs' = IF outcome = "success"
                     THEN FilterData(parsedTranscript, requests[i].speakerIds)
                     ELSE IF outcome = "noData" THEN <<>>
                     ELSE paragraphs
    /\ UNCHANGED <<agendaItems, noteVars, buttonHeld,
                   parsedTranscript, speakerFilter, issued, filterError,
                   timeVars, selVars, markVars, navVars>>

\* the continuation after `await res.json()`, dev_start.sh:274-279
JsonSettles(i, outcome) ==
    /\ i \in DOMAIN requests
    /\ requests[i].stage = "json"
    /\ requests' = RemoveAt(requests, i)
    /\ paragraphs' = IF outcome = "success"
                     THEN FilterData(parsedTranscript, requests[i].speakerIds)
                     ELSE paragraphs
    /\ UNCHANGED <<agendaItems, noteVars, buttonHeld,
                   parsedTranscript, speakerFilter, issued, filterError,
                   timeVars, selVars, markVars, navVars>>

\* --------------------------------------------- speaker filter specification

InitFilter == InitWith(SamplerTranscript)

SpeakerFilters ==
    {[useAll |-> TRUE, speakerIds |-> {}]}
    \cup {[useAll |-> FALSE, speakerIds |-> ids] : ids \in SUBSET Speakers}

FilterChange ==
    \E nextFilter \in SpeakerFilters :
        /\ HandleSpeakerFilterChange(nextFilter)
        /\ NavRecord(IF nextFilter.useAll THEN "filterAll" ELSE "filterIssue")
        /\ UNCHANGED lastResponse

FilterFetchSettles ==
    \E i \in DOMAIN requests : \E outcome \in FetchOutcomes :
        /\ FetchSettles(i, outcome)
        /\ NavRecord(IF outcome = "ok" THEN "fetchOk" ELSE "response")
        /\ lastResponse' = IF outcome = "ok" THEN lastResponse
                           ELSE [seq |-> requests[i].seq, kind |-> outcome,
                                 speakerIds |-> requests[i].speakerIds]

FilterJsonSettles ==
    \E i \in DOMAIN requests : \E outcome \in JsonOutcomes :
        /\ JsonSettles(i, outcome)
        /\ NavRecord("response")
        /\ lastResponse' = [seq |-> requests[i].seq, kind |-> outcome,
                            speakerIds |-> requests[i].speakerIds]

NextFilter ==
    \/ FilterChange
    \/ FilterFetchSettles
    \/ FilterJsonSettles

SpecFilter == InitFilter /\ [][NextFilter]_vars

\* --------------------------------- group marks under the speaker filter

\* speakers 1, 2, 1, ... in two paragraphs: filtering on speaker 1 makes its
\* sentences adjacent
FilterMarksTranscript == CutAt(Flatten(MarksTranscript), 2)

InitFilterMarks == InitWith(FilterMarksTranscript)

FilterMarksChange ==
    \E g \in 1..Len(speakerGroups) :
        /\ Len(markLog) < MaxRequests
        /\ HandleMarkChange(g, "important")
        /\ NavRecord("markChange")
        /\ UNCHANGED lastResponse

NextFilterMarks ==
    \/ FilterChange
    \/ FilterFetchSettles
    \/ FilterJsonSettles
    \/ FilterMarksChange

SpecFilterMarks == InitFilterMarks /\ [][NextFilterMarks]_vars

\* ------------------------------------------------------------------- notes

\* Date.now(): a reading of the wall clock, which does not go back here and
\* may give the same millisecond to two readings
ClockReadings == {now, now + 1}

\* Date.now().toString(), dev_start.sh:307, 346
NoteId(t) == [str |-> t]

\* newNote of handleAddNote, dev_start.sh:306-312
CaptureNote(t, created, captureTime, imageUrl) ==
    [id |-> NoteId(t), timestamp |-> captureTime, imageUrl |-> [url |-> imageUrl],
     content |-> <<>>, createdAt |-> created]

\* newNote of handleOneClickSummary, dev_start.sh:345-351; the content keeps
\* the two holes of the template `[${formatTimeFromMs(timeMs)}] ${text}`, and
\* the timestamp timeMs / 1000 is kept in ms
SummaryNote(t, created, detail) ==
    [id |-> NoteId(t), timestamp |-> detail.timeMs, imageUrl |-> Null,
     content |-> <<[stamp |-> detail.timeMs]>> \o detail.text, createdAt |-> created]

\* handleAddNote(event), dev_start.sh:296-316 (App.tsx:141-161): ready is
\* videoRef && videoRef.readyState >= 2, imageUrl the result of
\* captureVideoFrame, "" when no frame could be drawn
HandleAddNote(captureTime, ready, imageUrl) ==
    /\ isNotePanelOpen' = TRUE
    /\ IF ready /\ imageUrl # ""
       THEN \E t \in ClockReadings : \E created \in {t, t + 1} :
                /\ notes' = Append(notes, CaptureNote(t, created, captureTime, imageUrl))
                /\ now' = created
       ELSE UNCHANGED <<notes, now>>
    /\ UNCHANGED <<paragraphs, agendaItems, filterVars, buttonHeld, timeVars, selVars,
                   markVars, navVars>>

\* the map function of handleUpdateNote, dev_start.sh:321
UpdateNote(note, id, content) ==
    IF note.id = id THEN [note EXCEPT !.content = content] ELSE note

\* handleUpdateNote(id, content), dev_start.sh:319-323 (App.tsx:164-168)
HandleUpdateNote(id, content) ==
    /\ notes' = [i \in 1..Len(notes) |-> UpdateNote(notes[i], id, content)]
    /\ UNCHANGED <<isNotePanelOpen, now>>
    /\ UNCHANGED <<paragraphs, agendaItems, filterVars, buttonHeld, timeVars, selVars,
                   markVars, navVars>>

\* handleOneClickSummary(event), dev_start.sh:338-353: finite is
\* Number.isFinite(detail.timeMs)
HandleOneClickSummary(detail, finite) ==
    /\ IF detail.text = <<>> \/ ~finite
       THEN UNCHANGED noteVars
       ELSE /\ isNotePanelOpen' = TRUE
            /\ \E t \in ClockReadings : \E created \in {t, t + 1} :
                   /\ notes' = Append(notes, SummaryNote(t, created, detail))
                   /\ now' = created
    /\ UNCHANGED <<paragraphs, agendaItems, filterVars, buttonHeld, timeVars, selVars,
                   markVars, navVars>>

\* onClose of the note panel, dev_start.sh:438
CloseNotePanel ==
    /\ isNotePanelOpen' = FALSE
    /\ UNCHANGED <<notes, now>>
    /\ UNCHANGED <<paragraphs, agendaItems, filterVars, buttonHeld, timeVars, selVars,
                   markVars, navVars>>

\* --------------------------------------------------------- note specification

InitNotes == InitArgs(SamplerTranscript)

\* the history of a note step: the handler and the list position it was
\* addressed from (0 when it has none)
NoteRecord(op, index) ==
    /\ lastOp' = [op |-> op, index |-> index]
    /\ prevOp' = lastOp
    /\ UNCHANGED <<fed, updates>>

NoteCaptureTimes == {0, 1500}

NotesCapture ==
    \E captureTime \in NoteCaptureTimes : \E ready \in BOOLEAN :
        \E imageUrl \in {"", "frame"} :
            /\ Len(notes) < MaxNotes
            /\ HandleAddNote(captureTime, ready, imageUrl)
            /\ NoteRecord("capture", 0)

NoteDetails == [timeMs : {0, 1500}, text : {<<>>, <<1>>}]

NotesQuickExtract ==
    \E detail \in NoteDetails : \E finite \in BOOLEAN :
        /\ Len(notes) < MaxNotes
        /\ HandleOneClickSummary(detail, finite)
        /\ NoteRecord("quickExtract", 0)

NoteContents == {<<>>, <<7>>}

\* the textarea of the note at position i, part_002:145
NotesEdit ==
    \E i \in 1..Len(notes) : \E content \in NoteContents :
        /\ HandleUpdateNote(notes[i].id, content)
        /\ NoteRecord("edit", i)

NotesClose == CloseNotePanel /\ NoteRecord("close", 0)

NextNotes ==
    \/ NotesCapture
    \/ NotesQuickExtract
    \/ NotesEdit
    \/ NotesClose

SpecNotes == InitNotes /\ [][NextNotes]_vars

\* ------------------------------------------------------------------ clicks

\* setCurrentTime(ms / 1000) of a click handler of the App and the effects of
\* the render it causes, among them the player's time sync effect
SetCurrentTime(ms) ==
    /\ currentTime' = ms
    /\ videoTime' = SyncEffect(videoTime, ms)
    /\ renderTimeMs' = RenderTimeAfter(ms, selectionMenu.visible, isSelecting)

\* handleSentenceClick(time), dev_start.sh:255-257 (App.tsx:123-125)
HandleSentenceClick(time) ==
    /\ SetCurrentTime(time)
    /\ UNCHANGED <<paragraphs, appVars, selVars, markVars, navVars>>

\* handleGroupClickStable(group), index.tsx:575-578, with the App's
\* handleSentenceClick
HandleGroupClickStable(g) ==
    /\ selectedGroupId' = speakerGroups[g].id
    /\ SetCurrentTime(speakerGroups[g].startTime)
    /\ UNCHANGED <<paragraphs, appVars, selVars, markVars, forceScrollSentence>>

\* handleAgendaClick(item), dev_start.sh:248-252 (App.tsx:116-120)
HandleAgendaClick(item) ==
    IF "time" \in DOMAIN item
    THEN /\ SetCurrentTime(item.time)
         /\ UNCHANGED <<paragraphs, appVars, selVars, markVars, navVars>>
    ELSE UNCHANGED <<paragraphs, appVars, timeVars, selVars, markVars, navVars>>

\* ------------------------------------------------------ click specification

\* a dated item, an item with a time only and an undated item
ClickAgenda ==
    AgendaList(<<[title |-> "chapter", time |-> 0, endTime |-> 500],
                 [title |-> "chapter", time |-> 1400],
                 [title |-> "chapter"]>>)

InitClick == InitApp(SamplerTranscript, ClickAgenda)

\* the positions the player plays or is dragged to
ClickTimes == {0, 100, 300, 500, 600, 900, 1000, 1400, 1900, 2000}

ClickTimeUpdate == \E r \in ClickTimes : HandleTimeUpdate(r) /\ NavRecord("timeUpdate")

\* a timeupdate event of the player at the position it has (paused, or
\* between two frames)
ClickTick == HandleTimeUpdate(videoTime) /\ NavRecord("tick")

ClickGroup ==
    \E g \in 1..Len(speakerGroups) : HandleGroupClickStable(g) /\ NavRecord("groupClick")

ClickAgendaItem ==
    \E i \in 1..Len(agendaItems) :
        /\ HandleAgendaClick(agendaItems[i])
        /\ NavRecord(IF "time" \in DOMAIN agendaItems[i] THEN "agendaClick"
                     ELSE "agendaClickNoTime")

NextClick ==
    \/ ClickTimeUpdate
    \/ ClickTick
    \/ ClickGroup
    \/ ClickAgendaItem

SpecClick == InitClick /\ [][NextClick]_vars

\* ------------------------------------------------------------------- claims

RECURSIVE ConcatTc(_)
ConcatTc(S) == IF S = <<>> THEN <<>> ELSE Head(S).tc \o ConcatTc(Tail(S))

RECURSIVE ConcatSentences(_)
ConcatSentences(G) == IF G = <<>> THEN <<>> ELSE Head(G).sentences \o ConcatSentences(Tail(G))

\* G is the list of maximal same-speaker runs of S (the text is checked where
\* the groups carry one)
MaximalRuns(G, S, withText) ==
    /\ \A g \in 1..Len(G) :
          /\ G[g].sentences # <<>>
          /\ \A k \in 1..Len(G[g].sentences) : G[g].sentences[k].si = G[g].speakerId
          /\ G[g].startTime = G[g].sentences[1].bt
          /\ G[g].endTime = G[g].sentences[Len(G[g].sentences)].et
          /\ withText => G[g].text = ConcatTc(G[g].sentences)
    /\ \A g \in 1..(Len(G) - 1) : G[g].speakerId # G[g + 1].speakerId
    /\ ConcatSentences(G) = S

\* C1: for a time-ordered sentence sequence the groups (the panel's and the
\* player's) are the maximal same-speaker runs: one speaker per group, adjacent
\* groups differ in speaker, startTime is the first bt, endTime the last et,
\* text the concatenation of the tc, and the groups' sentences concatenated
\* give the input back.
C1_MaximalRuns ==
    IsSortedByBt(Flatten(paragraphs)) =>
        /\ MaximalRuns(speakerGroups, Flatten(paragraphs), TRUE)
        /\ MaximalRuns(playerGroups, Flatten(paragraphs), FALSE)

C1_Witness ==
    /\ IsSortedByBt(Flatten(paragraphs))
    /\ Len(Flatten(paragraphs)) = 3
    /\ Len(speakerGroups) = 2
    /\ Len(speakerGroups[1].sentences) = 2
    /\ speakerGroups[1].endTime > speakerGroups[1].sentences[1].et
    /\ Len(speakerGroups[1].text) = 3

SpeakerChanges(S) == Cardinality({i \in 1..(Len(S) - 1) : S[i].si # S[i + 1].si})

\* C2: n sentences with k adjacent speaker changes give exactly k+1 groups; the
\* empty input gives the empty group list.
C2_GroupCount ==
    LET S == Flatten(paragraphs)
    IN  IF S = <<>> THEN speakerGroups = <<>>
        ELSE Len(speakerGroups) = SpeakerChanges(S) + 1

C2_Witness ==
    /\ Len(Flatten(paragraphs)) = 3
    /\ SpeakerChanges(Flatten(paragraphs)) = 2
    /\ Len(speakerGroups) = 3

\* C3: grouping is idempotent: the groups' sentences, flattened into one
\* sequence and grouped again, give the same groups (ids, speakers, times,
\* sentence lists, texts).
C3_Idempotent ==
    SpeakerGroups(<<[sc |-> ConcatSentences(speakerGroups)]>>) = speakerGroups

C3_Witness ==
    /\ Len(speakerGroups) = 2
    /\ Len(speakerGroups[2].sentences) = 2
    /\ SpeakerGroups(<<[sc |-> ConcatSentences(speakerGroups)]>>) = speakerGroups

\* C4: the active group is none or a group whose [startTime, endTime] holds the
\* sampled time, and it is none when there is no active sentence.
C4_ActiveGroupContainsTime ==
    /\ currentGroup # Null =>
          currentGroup.startTime <= renderTimeMs /\ renderTimeMs <= currentGroup.endTime
    /\ currentSentence = Null => currentGroup = Null

\* C5: on the bt-sorted sentence list the search returns the sentence of the
\* greatest index with bt <= t if t <= its et, and none otherwise.
C5_BinarySearch ==
    LET S == allSentences
        t == renderTimeMs
        idx == {i \in 1..Len(S) : S[i].bt <= t}
        m == CHOOSE i \in idx : \A j \in idx : j <= i
    IN  IsSortedByBt(S) =>
            currentSentence = IF idx = {} THEN Null
                              ELSE IF t <= S[m].et THEN S[m] ELSE Null

C5_Witness ==
    /\ Len(allSentences) = 3
    /\ allSentences[1].bt < allSentences[2].bt
    /\ allSentences[2].bt < allSentences[3].bt
    /\ renderTimeMs = 400
    /\ currentSentence = allSentences[2]
    /\ Flatten(paragraphs) # allSentences

Suspended == isSelecting \/ selectionMenu.visible

ActiveSentenceAt(pg, ms) == CurrentSentence(AllSentences(pg), ms)

ActiveGroupAt(pg, ms) ==
    CurrentGroup(ActiveSentenceAt(pg, ms),
                 SentenceIdToGroupId(SpeakerGroups(pg)), SpeakerGroups(pg))

C7_SuspendedFrozen ==
    [][(Suspended /\ Suspended' /\ currentTime' # currentTime)
         => /\ renderTimeMs' = renderTimeMs
            /\ ActiveSentenceAt(paragraphs', renderTimeMs') = currentSentence
            /\ ActiveGroupAt(paragraphs', renderTimeMs') = currentGroup]_vars

C7_Witness ==
    /\ Suspended
    /\ lastOp = "timeUpdateFar"
    /\ currentTime = 600
    /\ renderTimeMs = 0
    /\ currentGroup # Null
    /\ CurrentSentence(allSentences, currentTime) # currentSentence

\* the selection gesture ended and no menu is left: the last handler closed the
\* menu, or was a mouse-up after which the menu is hidden
SuspensionEnded ==
    \/ lastOp \in {"clickOutside", "mark", "quickExtract", "playAudio"}
    \/ lastOp \in {"mouseUpHide", "mouseUpKeep"} /\ ~selectionMenu.visible

RECURSIVE LastChange(_, _)
LastChange(log, id) ==
    IF log = <<>> THEN NoMark
    ELSE IF log[Len(log)].groupId = id THEN log[Len(log)].type
    ELSE LastChange(SubSeq(log, 1, Len(log) - 1), id)

GroupIds == {speakerGroups[g].id : g \in 1..Len(speakerGroups)}

\* the log with the changes to group id taken out
WithoutGroup(log, id) == SelectSeq(log, LAMBDA e : e.groupId # id)

\* the mapping the changes of log build from the empty one
RECURSIVE Replay(_)
Replay(log) ==
    IF log = <<>> THEN <<>>
    ELSE SetGroupMark(Replay(SubSeq(log, 1, Len(log) - 1)),
                      log[Len(log)].groupId, log[Len(log)].type)

\* group id was marked important, question or todo, and its last change is none
MarkedThenNone(log, id) ==
    /\ LastChange(log, id) = NoMark
    /\ \E i \in 1..Len(log) : log[i].groupId = id /\ log[i].type # NoMark

\* C9 as stated: last write wins, and a group marked and then set to none is
\* absent from the mapping, the store being the one in which it was never marked.
C9_AbsentAfterNone ==
    /\ \A id \in GroupIds : MarkOf(groupMarks, id) = LastChange(markLog, id)
    /\ \A id \in GroupIds :
          MarkedThenNone(markLog, id) =>
              /\ id \notin DOMAIN groupMarks
              /\ groupMarks = Replay(WithoutGroup(markLog, id))

\* C9 (amended): last write wins; a group marked and then set to none keeps
\* its key with the value null, and the mark read for every group equals the
\* one read from the store in which that group was never marked.
C9_LastWriteWins ==
    /\ \A id \in GroupIds : MarkOf(groupMarks, id) = LastChange(markLog, id)
    /\ \A e \in {markLog[i] : i \in 1..Len(markLog)} : e.groupId \in DOMAIN groupMarks
    /\ \A id \in GroupIds :
          MarkedThenNone(markLog, id) =>
              \A other \in GroupIds :
                  MarkOf(groupMarks, other)
                      = MarkOf(Replay(WithoutGroup(markLog, id)), other)

C9_Witness ==
    /\ Len(markLog) = 3
    /\ markLog[1].type = "important"
    /\ markLog[2].groupId # markLog[1].groupId
    /\ markLog[2].type = "todo"
    /\ markLog[3] = [groupId |-> markLog[1].groupId, type |-> NoMark]
    /\ groupMarks[markLog[1].groupId] = NoMark
    /\ groupMarks[markLog[2].groupId] = "todo"

\* the 1-based index of the player's group that holds the active sentence at
\* time t (the last sentence with bt <= t, if t <= its et), 0 without one
ActiveGroupIndex(pg, t) ==
    LET groups == PlayerSpeakerGroups(PlayerAllSentences(pg))
        sentence == CurrentSentence(PlayerAllSentences(pg), t)
        holds == {i \in 1..Len(groups) :
                     \E k \in 1..Len(groups[i].sentences) :
                         groups[i].sentences[k].id = sentence.id}
    IN  IF sentence = Null THEN 0 ELSE CHOOSE i \in holds : TRUE

\* C10: from inside group i the previous (next) jump seeks to the start of the
\* nearest group before (after) i of group i's speaker; without such a group
\* the video position, the application time and the scroll target stay.
C10_Navigation ==
    [][LET groups == playerGroups
           i == ActiveGroupIndex(paragraphs, videoTime)
           same == {j \in 1..Len(groups) :
                       /\ groups[j].speakerId = groups[i].speakerId
                       /\ IF lastOp' = "prevSentence" THEN j < i ELSE j > i}
           nearest == CHOOSE j \in same :
                         \A k \in same : IF lastOp' = "prevSentence" THEN k <= j ELSE j <= k
       IN  (lastOp' \in {"prevSentence", "nextSentence"} /\ i # 0) =>
               IF same # {}
               THEN /\ videoTime' = groups[nearest].startTime
                    /\ currentTime' = groups[nearest].startTime
                    /\ forceScrollSentence' = groups[nearest].sentences[1]
               ELSE /\ videoTime' = videoTime
                    /\ currentTime' = currentTime
                    /\ forceScrollSentence' = forceScrollSentence]_vars

\* the 1-based indexes of the dated items of the agenda list
DatedIndexes == {i \in 1..Len(agendaItems) : IsDated(agendaItems[i])}

Inside(item, t) == item.time <= t /\ t <= item.endTime

FirstDated == CHOOSE i \in DatedIndexes : \A j \in DatedIndexes : i <= j
LastDated == CHOOSE i \in DatedIndexes : \A j \in DatedIndexes : j <= i

\* C11: with the playback time inside the last dated agenda item the next
\* segment jump changes neither the video position nor the application time,
\* and with it inside the first dated item the previous segment jump changes
\* neither, for every agenda list.
C11_AgendaEdges ==
    [][/\ (lastOp' = "nextSegment" /\ DatedIndexes # {}
              /\ Inside(agendaItems[LastDated], videoTime))
          => videoTime' = videoTime /\ currentTime' = currentTime
       /\ (lastOp' = "prevSegment" /\ DatedIndexes # {}
              /\ Inside(agendaItems[FirstDated], videoTime))
          => videoTime' = videoTime /\ currentTime' = currentTime]_vars

\* the first item in list order with time and endTime defined and
\* time <= t <= endTime, as a 1-based index, 0 without one
FirstActiveItem(items, t) ==
    LET hits == {i \in 1..Len(items) :
                   /\ {"time", "endTime"} \subseteq DOMAIN items[i]
                   /\ items[i].time <= t /\ t <= items[i].endTime}
    IN  IF hits = {} THEN 0 ELSE CHOOSE i \in hits : \A j \in hits : i <= j

\* C12: the active agenda item at the application time is the first dated
\* item in list order whose [time, endTime] holds it and none without one;
\* currentPlayingId, currentSegmentIndex and getAgendaItemByTime all give it.
C12_ActiveAgendaItem ==
    LET a == FirstActiveItem(agendaItems, currentTime)
    IN  /\ currentPlayingId = IF a = 0 THEN Null ELSE IdValue(agendaItems[a].id)
        /\ currentSegmentIndex = a - 1
        /\ GetAgendaItemByTime(agendaItems, currentTime)
              = IF a = 0 THEN Null ELSE agendaItems[a]

C12_Witness ==
    /\ Len(agendaItems) = 3
    /\ ~IsDated(agendaItems[1])
    /\ "time" \in DOMAIN agendaItems[1]
    /\ agendaItems[1].time <= currentTime
    /\ IsDated(agendaItems[2]) /\ IsDated(agendaItems[3])
    /\ Inside(agendaItems[2], currentTime) /\ Inside(agendaItems[3], currentTime)
    /\ currentSegmentIndex = 1
    /\ currentPlayingId = IdValue(2)
    /\ lastOp = "timeUpdate"

\* C13: a filter request that fails (the fetch rejects, a non-OK status, a
\* body that does not parse, code !== 0, or no data) leaves the displayed
\* transcript as it was and raises no error; a successful response replaces it.
C13_FailedFilterKeeps ==
    [][lastOp' = "response" =>
         /\ ~filterError'
         /\ IF lastResponse'.kind = "success"
            THEN paragraphs' = FilterData(parsedTranscript, lastResponse'.speakerIds)
            ELSE paragraphs' = paragraphs]_vars

C13_Witness ==
    /\ lastOp = "response"
    /\ lastResponse.kind = "noData"
    /\ lastResponse.seq = 2
    /\ paragraphs = FilterData(parsedTranscript, {1})
    /\ paragraphs # parsedTranscript
    /\ speakerFilter = [useAll |-> FALSE, speakerIds |-> {2}]

\* C14: responses are adopted in the order they resolve whatever the order of
\* issue: a successful response always becomes the displayed transcript, so
\* with two successful requests the one that resolves last is displayed.
C14_LastResolvedWins ==
    [][(lastOp' = "response" /\ lastResponse'.kind = "success") =>
          paragraphs' = FilterData(parsedTranscript, lastResponse'.speakerIds)]_vars

\* the first request resolved after the second: its data is displayed while
\* the filter selected is the second one's
C14_Witness ==
    /\ issued = 2
    /\ requests = <<>>
    /\ lastOp = "response"
    /\ lastResponse = [seq |-> 1, kind |-> "success", speakerIds |-> {1}]
    /\ speakerFilter = [useAll |-> FALSE, speakerIds |-> {2}]
    /\ paragraphs = FilterData(parsedTranscript, {1})
    /\ paragraphs # FilterData(parsedTranscript, {2})

\* ---- C15

\* the identifiers of the selection marks of a list
TextMarkIds(marks) == {marks[i].id : i \in 1..Len(marks)}

\* C15: a mark chosen in the selection menu appends exactly one selection
\* mark to the end of the list, leaves the marks already there as they were,
\* and the identifier of the new mark differs from the identifier of every
\* mark already in the list.
C15_AppendsFreshMark ==
    [][lastOp' = "mark" =>
          /\ Len(textMarks') = Len(textMarks) + 1
          /\ SubSeq(textMarks', 1, Len(textMarks)) = textMarks
          /\ textMarks'[Len(textMarks')].id \notin TextMarkIds(textMarks)]_vars

\* ---- C16

\* the list with the text content of the note at position i replaced
EditedAt(list, i, content) == [list EXCEPT ![i].content = content]

\* C16: no capture, quick-extract, edit or close removes or reorders a note:
\* the notes before the step are a prefix of the notes after it, up to the
\* content of edited notes; and an edit addressed from the note at position i
\* changes the content of that note and nothing else in the list.
C16_NotesAppendOnly ==
    [][/\ Len(notes') >= Len(notes)
       /\ \A j \in 1..Len(notes) :
              [notes'[j] EXCEPT !.content = <<>>] = [notes[j] EXCEPT !.content = <<>>]
       /\ lastOp'.op # "edit" => SubSeq(notes', 1, Len(notes)) = notes
       /\ lastOp'.op = "edit" =>
              \E content \in NoteContents :
                  notes' = EditedAt(notes, lastOp'.index, content)]_vars

\* ---- C17

\* the positions of the progress bar's entries for group id
EntriesOf(marks, id) == {i \in 1..Len(marks) : marks[i].groupId = id}

\* C17: after any sequence of group-mark changes the progress bar's list
\* holds exactly one entry, of the same type, for each group whose mark is
\* non-null, none for a group that is unmarked or was cleared, and never two
\* entries with the same groupId.
C17_ProgressBarAgrees ==
    /\ \A i, j \in 1..Len(transcriptMarks) :
           transcriptMarks[i].groupId = transcriptMarks[j].groupId => i = j
    /\ \A i \in 1..Len(transcriptMarks) :
           \E g \in 1..Len(speakerGroups) :
               transcriptMarks[i].groupId = speakerGroups[g].id
    /\ \A g \in 1..Len(speakerGroups) :
           LET id == speakerGroups[g].id
               entries == EntriesOf(transcriptMarks, id)
           IN  IF MarkOf(groupMarks, id) = NoMark
               THEN entries = {}
               ELSE /\ Cardinality(entries) = 1
                    /\ \A i \in entries :
                           transcriptMarks[i].type = MarkOf(groupMarks, id)

\* a group marked, marked again with another type, then another group marked
C17_Witness ==
    /\ Len(markLog) = 3
    /\ markLog[1].type = "important"
    /\ markLog[2] = [groupId |-> markLog[1].groupId, type |-> "question"]
    /\ markLog[3].groupId # markLog[1].groupId
    /\ markLog[3].type = "todo"
    /\ Len(transcriptMarks) = 2
    /\ transcriptMarks[1].type = "question"
    /\ transcriptMarks[2].type = "todo"

\* ---- C18

\* the length of the texts of the first k sentences
RECURSIVE TextEnd(_, _)
TextEnd(sentences, k) ==
    IF k = 0 THEN 0 ELSE TextEnd(sentences, k - 1) + Len(sentences[k].tc)

\* the positions of the sentences whose text ends at or after offset p
EndingFrom(sentences, p) == {k \in 1..Len(sentences) : TextEnd(sentences, k) >= p}

\* a <= b and a = b for fractions with positive denominators
FracLeq(a, b) == a.num * b.den <= b.num * a.den
FracEq(a, b) == a.num * b.den = b.num * a.den

\* sentences in time order that do not overlap
TimeOrdered(sentences) ==
    /\ \A k \in 1..Len(sentences) : sentences[k].bt <= sentences[k].et
    /\ \A k \in 1..(Len(sentences) - 1) : sentences[k].et <= sentences[k + 1].bt

\* C18: for an offset p within the group's text the start time is that of the
\* first sentence whose text ends at or after p, bt + ((p - textStart) /
\* textLength) * (et - bt), or bt when its text is empty; it lies within that
\* sentence's [bt, et]; it does not decrease from p to p + 1 when the sentences
\* are time-ordered and do not overlap; and it is the group's startTime when no
\* sentence is found or an exception occurs.
C18_SelectionStartTime ==
    [][lastOp'.op = "selectionStart" =>
          LET group == speakerGroups[lastOp'.g]
              p == lastOp'.p
              result == lastOp'.result
              found == EndingFrom(group.sentences, p)
          IN  IF lastOp'.throws \/ found = {}
              THEN result = Ms(group.startTime)
              ELSE LET k == CHOOSE k \in found : \A j \in found : k <= j
                       sentence == group.sentences[k]
                       textStart == TextEnd(group.sentences, k - 1)
                       textLength == Len(sentence.tc)
                   IN  /\ IF textLength = 0
                          THEN result = Ms(sentence.bt)
                          ELSE FracEq(result,
                                      [num |-> sentence.bt * textLength
                                               + (p - textStart)
                                                 * (sentence.et - sentence.bt),
                                       den |-> textLength])
                       /\ FracLeq(Ms(sentence.bt), result)
                       /\ FracLeq(result, Ms(sentence.et))
                       /\ (TimeOrdered(group.sentences) /\ p < Len(group.text)) =>
                              FracLeq(result,
                                      ComputeSelectionStartTimeMs(group, p + 1,
                                                                  FALSE))]_vars

\* an offset inside the second sentence, where the time is not a whole ms
C18_Witness ==
    /\ lastOp.op = "selectionStart"
    /\ ~lastOp.throws
    /\ lastOp.p = MaxTextLen + 1
    /\ Len(speakerGroups[lastOp.g].sentences) >= 2
    /\ Len(speakerGroups[lastOp.g].sentences[1].tc) = MaxTextLen
    /\ Len(speakerGroups[lastOp.g].sentences[2].tc) = MaxTextLen
    /\ TimeOrdered(speakerGroups[lastOp.g].sentences)
    /\ lastOp.result.num % lastOp.result.den # 0

\* ---- C19

\* the fields the player's groups have, of a group of the panel
PlayerFields(group) ==
    [id |-> group.id, speakerId |-> group.speakerId, startTime |-> group.startTime,
     endTime |-> group.endTime, sentences |-> group.sentences]

\* C19: for every paragraph input, in ascending bt order or not, the panel's
\* speaker groups have the ids, speakerIds, start times, end times and
\* sentence lists of the groups the player computes from the flattened
\* sequence sorted by bt with a stable sort.
C19_PanelGroupsSorted ==
    /\ Len(speakerGroups) = Len(playerGroups)
    /\ \A g \in 1..Len(speakerGroups) : PlayerFields(speakerGroups[g]) = playerGroups[g]

\* ---- C20

\* t lies in no group's [startTime, endTime]
InGap(groups, t) ==
    \A i \in 1..Len(groups) : ~(groups[i].startTime <= t /\ t <= groups[i].endTime)

\* the 1-based position of the group just before the gap t lies in: one less
\* than the first group that starts after t, the last group when t lies after
\* all of them, 0 when t lies before the first group
GroupBeforeGap(groups, t) ==
    LET after == {i \in 1..Len(groups) : groups[i].startTime > t}
    IN  IF after = {} THEN Len(groups)
        ELSE (CHOOSE i \in after : \A j \in after : i <= j) - 1

\* the positions a jump from position cur may land on, nearest first
SameSpeakerBefore(groups, cur) ==
    {i \in 1..(cur - 1) : groups[i].speakerId = groups[cur].speakerId}
SameSpeakerAfter(groups, cur) ==
    {i \in (cur + 1)..Len(groups) : groups[i].speakerId = groups[cur].speakerId}

\* the step lands on the group at position i
LandsOn(groups, i) ==
    /\ videoTime' = groups[i].startTime
    /\ currentTime' = groups[i].startTime
    /\ forceScrollSentence' = groups[i].sentences[1]

\* C20: from a time in no group, a previous/next-utterance jump navigates by
\* same-speaker search from the group just before the gap, for every gap
\* position: before the first group (no such group: nothing moves), between
\* two groups, and after the end of the last group.
C20_GapFallback ==
    [][(lastOp' \in {"prevSentence", "nextSentence"}
          /\ InGap(playerGroups, videoTime)) =>
          LET groups == playerGroups
              cur == GroupBeforeGap(groups, videoTime)
              targets == IF cur = 0 THEN {}
                         ELSE IF lastOp' = "prevSentence"
                         THEN SameSpeakerBefore(groups, cur)
                         ELSE SameSpeakerAfter(groups, cur)
          IN  IF targets = {}
              THEN UNCHANGED <<videoTime, currentTime, forceScrollSentence>>
              ELSE IF lastOp' = "prevSentence"
              THEN LandsOn(groups, CHOOSE i \in targets : \A j \in targets : j <= i)
              ELSE LandsOn(groups, CHOOSE i \in targets : \A j \in targets : i <= j)]_vars

\* ---- C21

\* every item is dated and each one ends where the next one starts
Contiguous(items) ==
    /\ \A i \in 1..Len(items) : IsDated(items[i]) /\ items[i].time < items[i].endTime
    /\ \A i \in 1..(Len(items) - 1) : items[i].endTime = items[i + 1].time

\* t lies inside item i of a contiguous agenda, whose items share their bounds
InsideItem(items, i, t) == items[i].time <= t /\ t < items[i].endTime

\* C21: in an agenda of dated, ascending, contiguous items a next-chapter jump
\* from inside item i sets the playback time to the start of item i + 1, and
\* from inside the last item it changes nothing; a previous-chapter jump from
\* inside item i sets it to the start of item i - 1, and from inside the first
\* item it changes nothing.
C21_ChapterStepping ==
    [][(Contiguous(agendaItems) /\ lastOp' \in {"prevSegment", "nextSegment"}) =>
          \A i \in 1..Len(agendaItems) :
              InsideItem(agendaItems, i, videoTime) =>
                  LET j == IF lastOp' = "nextSegment" THEN i + 1 ELSE i - 1
                  IN  IF j \in 1..Len(agendaItems)
                      THEN /\ videoTime' = agendaItems[j].time
                           /\ currentTime' = agendaItems[j].time
                      ELSE UNCHANGED <<videoTime, currentTime>>]_vars

\* ---- C22

\* C22: in every reachable state in which no mouse button is held and the
\* selection menu is hidden, isSelecting is false, so the sampler is tracking.
C22_NotSuspendedForever ==
    (~buttonHeld /\ ~selectionMenu.visible) => ~isSelecting

\* ---- C23

\* C23: whenever the sampler is tracking (no selection under way, menu
\* hidden) and the effects of the last render have run, the sampled time is
\* within the threshold of the raw time.
C23_TrackingWithinThreshold ==
    (~isSelecting /\ ~selectionMenu.visible) =>
        Abs(currentTime - renderTimeMs) < Threshold

\* ---- C24

\* the dated items of the list are in ascending order and do not overlap
DatedAscending(items) ==
    \A i, j \in 1..Len(items) :
        (i < j /\ IsDated(items[i]) /\ IsDated(items[j])) =>
            /\ items[i].time <= items[i].endTime
            /\ items[i].endTime <= items[j].time

\* C24: for an agenda whose dated items are ascending and do not overlap, a
\* next-chapter jump never sets the playback time to a value earlier than the
\* time it starts from, and a previous-chapter jump never to a later one.
C24_Directional ==
    [][DatedAscending(agendaItems) =>
          /\ lastOp' = "nextSegment" => videoTime' >= videoTime
          /\ lastOp' = "prevSegment" => videoTime' <= videoTime]_vars

\* ---- C25

\* C25: at every playback time the chapter the previous/next-chapter jumps
\* take as current (offset test, then inclusive test) is the chapter
\* highlighted as active on the progress bar and in the overview (the first
\* item with time <= t <= endTime); stated for the agendas whose dated items
\* are ascending and do not overlap.
C25_CurrentIsHighlighted ==
    DatedAscending(agendaItems) =>
        LET current == SegmentIndex(agendaItems, videoTime)
        IN  /\ current = AgendaFindIndex(agendaItems, videoTime)
            /\ CurrentPlayingId(agendaItems, videoTime)
                   = IF current = -1 THEN Null
                     ELSE IdValue(agendaItems[current + 1].id)

\* ---- C26

\* C26: after a click on a speaker group or on an agenda item with a start
\* time the player's position is that start time, whatever the position
\* before the click; and the player's next tick leaves the app's current
\* time at the start time.
C26_ClickSetsPosition ==
    [][/\ lastOp' \in {"groupClick", "agendaClick"} => videoTime' = currentTime'
       /\ (lastOp \in {"groupClick", "agendaClick"} /\ lastOp' = "tick") =>
              currentTime' = currentTime]_vars

\* ---- C27

\* the progress bar's entries that came from selection marks, in list order
SelectionEntries(marks) == SelectSeq(marks, LAMBDA m : "sel" \in DOMAIN m.groupId)

\* C27: after any sequence of selection marks the progress bar holds exactly
\* one entry for each selection mark of the transcript panel's list, with the
\* same type and start time, so the two lists have the same number of
\* selection marks; and a change or clearing of a group mark leaves the
\* selection marks of both lists as they were.
C27_StoresConsistent ==
    /\ [](/\ Len(SelectionEntries(transcriptMarks)) = Len(textMarks)
          /\ \A k \in 1..Len(textMarks) :
                 LET entries == EntriesOf(transcriptMarks, textMarks[k].id)
                 IN  /\ Cardinality(entries) = 1
                     /\ \A i \in entries :
                            /\ transcriptMarks[i].type = textMarks[k].type
                            /\ transcriptMarks[i].timeMs = textMarks[k].startTimeMs)
    /\ [][lastOp' = "markChange" =>
              /\ textMarks' = textMarks
              /\ SelectionEntries(transcriptMarks') =
                     SelectionEntries(transcriptMarks)]_vars

\* ---- C28

\* the displayed transcript has a group with this id that shows a mark
ShowsMark(id) ==
    \E g \in 1..Len(speakerGroups) :
        speakerGroups[g].id = id /\ MarkOf(groupMarks, id) # NoMark

\* C28: when a filtered transcript has been adopted, every marked group of
\* the full transcript whose speaker is in the requested set has a displayed
\* group with the same id that shows the mark, and every mark on the progress
\* bar has a marked group in the displayed transcript.
C28_MarksSurviveFilter ==
    (lastOp = "response" /\ lastResponse.kind = "success") =>
        /\ \A G \in 1..Len(SpeakerGroups(parsedTranscript)) :
               LET group == SpeakerGroups(parsedTranscript)[G]
               IN  (MarkOf(groupMarks, group.id) # NoMark
                    /\ group.speakerId \in lastResponse.speakerIds) => ShowsMark(group.id)
        /\ \A i \in 1..Len(transcriptMarks) : ShowsMark(transcriptMarks[i].groupId)

\* ---- C29

\* C29: whenever "all" is selected and no filter request is in flight the
\* displayed transcript is the full parsed transcript, for every interleaving
\* of filter changes and request resolutions; and whenever "all" is selected
\* the set of selected speaker ids is empty.
C29_QuiescentMatchesFilter ==
    /\ (speakerFilter.useAll /\ requests = <<>>) => paragraphs = parsedTranscript
    /\ speakerFilter.useAll => speakerFilter.speakerIds = {}

\* ---- C30

SentenceIdsDistinct(S) == \A i, j \in 1..Len(S) : S[i].id = S[j].id => i = j

\* the positions of the groups whose sentence list holds the sentence id
GroupsHolding(groups, id) ==
    {g \in 1..Len(groups) :
        \E k \in 1..Len(groups[g].sentences) : groups[g].sentences[k].id = id}

\* C30: for a transcript whose sentence ids are pairwise distinct the group
\* ids are pairwise distinct, every sentence of the flattened list is a key
\* of the sentenceId -> groupId map, exactly one group holds it, and the map
\* sends it to the id of that group; the map and the groups are those of the
\* paragraphs of the same state.
C30_CachesConsistent ==
    LET groups == speakerGroups
        map == SentenceIdToGroupId(groups)
        sentences == Flatten(paragraphs)
    IN  SentenceIdsDistinct(sentences) =>
            /\ \A g, h \in 1..Len(groups) : groups[g].id = groups[h].id => g = h
            /\ \A i \in 1..Len(sentences) :
                   LET id == sentences[i].id
                       holding == GroupsHolding(groups, id)
                   IN  /\ id \in DOMAIN map
                       /\ Cardinality(holding) = 1
                       /\ \A g \in holding : map[id] = groups[g].id

\* three sentences out of time order in two groups, the first of two
\* sentences: the second sentence is mapped to the group named after the first
C30_Witness ==
    /\ Len(allSentences) = 3
    /\ Flatten(paragraphs) # allSentences
    /\ Len(speakerGroups) = 2
    /\ Len(speakerGroups[1].sentences) = 2
    /\ sentenceIdToGroupId[2] = GroupId(Flatten(paragraphs)[1])
    /\ sentenceIdToGroupId[3] = speakerGroups[2].id

====
